---- MODULE Spec2Model ----
(***************************************************************************)
(* Model of buildkite/roko v2: the Backoff iterator, its appendSentiel     *)
(* helper and the generic retry drivers Retry0 .. Retry3.                  *)
(*                                                                         *)
(* One behaviour is one call RetryN(ctx, pauseSeq, f).  Durations are      *)
(* integers (nanoseconds).  The operation f is the environment: each       *)
(* invocation returns a value and an error picked from small sets and may  *)
(* overwrite the handle *nw.  The context is cancelled by the environment  *)
(* at any moment, or is already cancelled when the driver is called.       *)
(*                                                                         *)
(* Spec and SpecLive follow one RetryN call (SpecLive with fairness, for   *)
(* termination); SpecSeq follows one range over a sequence combinator,     *)
(* SpecReuse a second range over the same value; SpecRetrier follows one   *)
(* Do or DoWithContext call of the legacy Retrier.                         *)
(***************************************************************************)
EXTENDS Integers, Sequences, FiniteSets

\* ------------------------------------------------------------------------
\* Bounds of the model
\* ------------------------------------------------------------------------

\* longest explicit prefix of a pause sequence
MaxLen == 2

\* most invocations explored when the pause sequence is infinite
MaxCalls == 3

\* most elements taken from the inputs of a combinator in one iteration
MaxPulls == 4

\* ------------------------------------------------------------------------
\* Values
\* ------------------------------------------------------------------------

SentinelDuration == -1

\* durations a pause sequence may yield (a negative one, not the sentinel)
SeqDurations == {-2, 0, 1}

\* durations the operation may write to the handle
WriteDurations == {-1, 2}

\* the operation did not write to the handle (a write of d is <<d>>)
NoWrite == << >>

\* what one invocation does to the handle
Writes == {NoWrite} \cup { << d >> : d \in WriteDurations }

\* a pause sequence without an infinite tail (a tail of d is <<d>>)
NoTail == << >>

\* An error is its chain of wrapped errors, outermost first; nil is <<>>.
NilErr == << >>

ErrUnrecoverable == "unrecoverable"

\* reasons a context reports once it is done
CtxErrs == { <<"context canceled">>, <<"context deadline exceeded">> }

\* what one invocation of the operation returns: a value and an error
OpOutcomes == { << 1, NilErr >>, << 2, NilErr >>,
                << 1, <<"spurious error">> >>,
                << 2, <<"some other error">> >>,
                << 1, <<ErrUnrecoverable>> >>,
                << 2, <<"catastrophic error", ErrUnrecoverable>> >> }

\* the zero value of a result type T
ZeroVal == 0

\* errors.Is(err, target): target occurs in the chain of err
ErrorsIs(err, target) == \E j \in 1..Len(err) : err[j] = target

\* ------------------------------------------------------------------------
\* Pause sequences: an explicit finite prefix, then either the end or one
\* duration repeated forever (Const).
\* ------------------------------------------------------------------------

RECURSIVE SeqsUpTo(_, _)
SeqsUpTo(S, n) ==
    IF n = 0 THEN { << >> }
    ELSE LET shorter == SeqsUpTo(S, n - 1)
         IN  shorter \cup { Append(s, x) : s \in { q \in shorter : Len(q) = n - 1 }, x \in S }

\* Const(dur) yields dur forever
Const(dur) == [items |-> << >>, tail |-> << dur >>]

PauseSeqs == { [items |-> s, tail |-> tl] :
                 s \in SeqsUpTo(SeqDurations, MaxLen),
                 tl \in {NoTail, Const(0).tail, Const(1).tail} }

IsFinite(seq) == seq.tail = NoTail

\* the k-th element of seq (1-based) as a sequence of length 0 (ended) or 1
SeqNth(seq, k) ==
    IF k <= Len(seq.items) THEN << seq.items[k] >>
    ELSE IF seq.tail # NoTail THEN seq.tail
    ELSE << >>

\* appendSentiel(seq): the elements of seq, then SentinelDuration once
appendSentiel_NoSentinel(seq, k) == SeqNth(seq, k)

appendSentiel_ZeroSentinel(seq, k) ==
    IF SeqNth(seq, k) # << >> THEN SeqNth(seq, k)
    ELSE IF k = Len(seq.items) + 1 THEN << 0 >>
    ELSE << >>

appendSentiel_TwoSentinels(seq, k) ==
    IF SeqNth(seq, k) # << >> THEN SeqNth(seq, k)
    ELSE IF IsFinite(seq) /\ k <= Len(seq.items) + 2 THEN << SentinelDuration >>
    ELSE << >>

appendSentiel(seq, k) ==
    IF SeqNth(seq, k) # << >> THEN SeqNth(seq, k)
    ELSE IF k = Len(seq.items) + 1 THEN << SentinelDuration >>
    ELSE << >>

\* ------------------------------------------------------------------------
\* State
\* ------------------------------------------------------------------------

VARIABLES
    pauseSeq,   \* the pause sequence handed to the driver
    arity,      \* which of Retry0 .. Retry3 runs
    ctxDone,    \* ctx.Done() is closed
    ctxErr,     \* ctx.Err(): nil until ctxDone
    preCancelled, \* history: ctx was already cancelled when RetryN was called
    pc,         \* position of the driver
    i,          \* Backoff's iteration index
    pulled,     \* elements taken so far from appendSentiel(pauseSeq)
    nw,         \* the handle's value (the loop variable nw of Backoff)
    t,          \* RetryN's result variables t1 .. tN
    err,        \* RetryN's err variable
    ret,        \* what RetryN returned: <<values, error>>, or << >> before
    stop,       \* why the loop ended
    calls,      \* history: iteration index of every invocation of f
    log,        \* history: what every invocation of f returned and wrote
    waits,      \* history: duration of every wait that was started
    events      \* history: "call", "return", "wait" in program order

\* the variables of one RetryN call
retryVars == << pauseSeq, arity, ctxDone, ctxErr, preCancelled, pc, i, pulled,
               nw, t, err, ret, stop, calls, log, waits, events >>

\* One iteration (range) over a sequence built by a combinator.
VARIABLES
    comb,       \* the combinator iterated: "Limit", "Concat", "Jitter",
                \* "IntervalJitter", "FactorJitter"
    jitLo,      \* lo of IntervalJitter; lo of FactorJitter, in quarters
    jitHi,      \* hi of IntervalJitter; hi of FactorJitter, in quarters
    seqRound,   \* which range over the same sequence value this is: 1, 2
    prevOut,    \* history: << seqOut >> of round 1 if it ran to its end
    ins,        \* its input sequences
    limitN,     \* Limit's n, captured by the iterator and counted down
    limitN0,    \* history: the n Limit was called with
    concatIdx,  \* Concat: index in seqs of the sequence being ranged over
    seqPc,      \* position of the iteration
    seqPulls,   \* history: <<input, element>> of every element taken
    seqOut,     \* history: every element yielded to the consumer
    haltAt      \* history: << Len(seqPulls) >> when the consumer stopped

seqVars == << comb, jitLo, jitHi, seqRound, prevOut, ins, limitN, limitN0,
             concatIdx, seqPc, seqPulls, seqOut, haltAt >>

\* One call of Do on a legacy Retrier.
VARIABLES
    strategy,     \* the strategy the retrier was built with
    forever,      \* TryForever()
    maxAttempts,  \* WithMaxAttempts(n); 0 with TryForever()
    attemptCount, \* attempts marked so far
    nextInterval, \* the cached next interval
    breakFlag,    \* Break() was called
    legPc,        \* position of Do
    sleeps,       \* history: the intervals handed to the sleep function
    legLog,       \* history: what every invocation of the callback did
    legRet,       \* what Do returned: << error >>, or << >> before
    legCtxDone,   \* the context given to DoWithContext is done
    legCtxErr,    \* its Err()
    legPreCancelled \* history: the context was done before the call

legVars == << strategy, forever, maxAttempts, attemptCount, nextInterval,
             breakFlag, legPc, sleeps, legLog, legRet, legCtxDone, legCtxErr,
             legPreCancelled >>

vars == << retryVars, seqVars, legVars >>

\* the N values f returns on one invocation, built from one choice v
Vals(n, v) == [ j \in 1..n |-> 10 * j + v ]

ZeroVals(n) == [ j \in 1..n |-> ZeroVal ]

\* no combinator is being iterated
SeqIdle ==
    /\ comb = "none"
    /\ jitLo = 0
    /\ jitHi = 0
    /\ seqRound = 0
    /\ prevOut = << >>
    /\ ins = << >>
    /\ limitN = 0
    /\ limitN0 = 0
    /\ concatIdx = 0
    /\ seqPc = "idle"
    /\ seqPulls = << >>
    /\ seqOut = << >>
    /\ haltAt = << >>

\* no legacy retrier is running
LegIdle ==
    /\ strategy = << >>
    /\ forever = FALSE
    /\ maxAttempts = 0
    /\ attemptCount = 0
    /\ nextInterval = 0
    /\ breakFlag = FALSE
    /\ legPc = "idle"
    /\ sleeps = << >>
    /\ legLog = << >>
    /\ legRet = << >>
    /\ legCtxDone = FALSE
    /\ legCtxErr = NilErr
    /\ legPreCancelled = FALSE

Init ==
    /\ SeqIdle
    /\ LegIdle
    /\ pauseSeq \in PauseSeqs
    /\ arity \in 0..3
    /\ \/ ctxDone = FALSE /\ ctxErr = NilErr
       \/ ctxDone = TRUE /\ ctxErr \in CtxErrs
    /\ preCancelled = ctxDone
    /\ pc = "entry"
    /\ i = 0
    /\ pulled = 0
    /\ nw = 0
    /\ t = << >>
    /\ err = NilErr
    /\ ret = << >>
    /\ stop = "running"
    /\ calls = << >>
    /\ log = << >>
    /\ waits = << >>
    /\ events = << >>

\* ------------------------------------------------------------------------
\* Steps of RetryN and of Backoff
\* ------------------------------------------------------------------------

\* RetryN returns (t, e) because of why
Return_ZeroValues(vals, e, why) ==
    /\ pc' = "done"
    /\ ret' = << ZeroVals(arity), e >>
    /\ stop' = why

Return(vals, e, why) ==
    /\ pc' = "done"
    /\ ret' = << vals, e >>
    /\ stop' = why

\* Backoff's range over appendSentiel takes the next element: it is yielded
\* to RetryN's loop body, or the range is over and RetryN returns (t, err).
NextIteration_Skip(vals, e) ==
    LET nx == appendSentiel(pauseSeq, pulled + 2)
    IN  IF nx # << >>
        THEN /\ pulled' = pulled + 2
             /\ nw' = nx[1]
             /\ pc' = "yield"
             /\ UNCHANGED << ret, stop >>
        ELSE /\ Return(vals, e, "exhausted")
             /\ UNCHANGED << pulled, nw >>

NextIteration(vals, e) ==
    LET nx == appendSentiel(pauseSeq, pulled + 1)
    IN  IF nx # << >>
        THEN /\ pulled' = pulled + 1
             /\ nw' = nx[1]
             /\ pc' = "yield"
             /\ UNCHANGED << ret, stop >>
        ELSE /\ Return(vals, e, "exhausted")
             /\ UNCHANGED << pulled, nw >>

\* RetryN is called: var t, var err, Backoff sets i := 0 and yields at once.
Enter_CtxFirst ==
    /\ pc = "entry"
    /\ t' = ZeroVals(arity)
    /\ err' = NilErr
    /\ i' = 0
    /\ IF ctxDone
       THEN /\ Return(ZeroVals(arity), NilErr, "cancelled")
            /\ UNCHANGED << pulled, nw >>
       ELSE NextIteration(ZeroVals(arity), NilErr)
    /\ UNCHANGED << seqVars, legVars, pauseSeq, arity, ctxDone, ctxErr, preCancelled, calls, log,
                    waits, events >>

Enter_WaitFirst ==
    /\ pc = "entry"
    /\ t' = ZeroVals(arity)
    /\ err' = NilErr
    /\ i' = 0
    /\ pulled' = 1
    /\ nw' = appendSentiel(pauseSeq, 1)[1]
    /\ pc' = "select"
    /\ UNCHANGED << seqVars, legVars, pauseSeq, arity, ctxDone, ctxErr, preCancelled, ret, stop,
                    calls, log, waits, events >>

Enter ==
    /\ pc = "entry"
    /\ t' = ZeroVals(arity)
    /\ err' = NilErr
    /\ i' = 0
    /\ NextIteration(ZeroVals(arity), NilErr)
    /\ UNCHANGED << seqVars, legVars, pauseSeq, arity, ctxDone, ctxErr, preCancelled, calls, log, waits, events >>

\* the loop body starts: f(i, nw) is invoked
Invoke ==
    /\ pc = "yield"
    /\ IsFinite(pauseSeq) \/ Len(calls) < MaxCalls
    /\ pc' = "running"
    /\ calls' = Append(calls, i)
    /\ events' = Append(events, "call")
    /\ UNCHANGED << seqVars, legVars, pauseSeq, arity, ctxDone, ctxErr, preCancelled, i, pulled,
                    nw, t, err, ret, stop, log, waits >>

\* RetryN's loop body looks at the error e that f returned:
\* return t, err / continue / return t, nil
RetryBody_NoUnrecoverable(e) ==
    IF e # NilErr THEN "continue" ELSE "success"

RetryBody_RetryOnNil(e) ==
    IF ErrorsIs(e, ErrUnrecoverable) THEN "unrecoverable" ELSE "continue"

RetryBody(e) ==
    IF ErrorsIs(e, ErrUnrecoverable) THEN "unrecoverable"
    ELSE IF e # NilErr THEN "continue"
    ELSE "success"

\* the handle's value when the yield returns: cur, or what f wrote
HandleAfter_Stale(cur, w) == cur

HandleAfter(cur, w) == IF w = NoWrite THEN cur ELSE w[1]

\* Backoff after a yield that returned true: if nw < 0 { return }
AfterYield_NoCheck(d) == "select"

AfterYield_OnlySentinel(d) ==
    IF d = SentinelDuration THEN "negative" ELSE "select"

AfterYield(d) == IF d < 0 THEN "negative" ELSE "select"

\* f returns (Vals(arity, v), e), having written w to the handle or not.
\* RetryN assigns t and err, then returns or continues; on continue Backoff
\* reads the handle and returns (the range ends, RetryN returns t, err) or
\* goes on to the select.
OpReturn(v, e, w) ==
    /\ pc = "running"
    /\ LET d    == HandleAfter(nw, w)
           vals == Vals(arity, v)
           body == RetryBody(e)
           next == IF body = "continue" THEN AfterYield(d) ELSE body
       IN  /\ nw' = d
           /\ t' = vals
           /\ err' = e
           /\ log' = Append(log, [idx |-> i, given |-> nw, vals |-> vals,
                                   err |-> e, wrote |-> w])
           /\ events' = Append(events, "return")
           /\ IF next = "select"
              THEN /\ pc' = "select"
                   /\ UNCHANGED << ret, stop >>
              ELSE Return(vals, IF next = "success" THEN NilErr ELSE e, next)
    /\ UNCHANGED << seqVars, legVars, pauseSeq, arity, ctxDone, ctxErr, preCancelled, i, pulled,
                    calls, waits >>

\* the wait is over: i++ and the range goes on
Continue ==
    /\ i' = i + 1
    /\ NextIteration(t, err)

\* Backoff reaches select { <-ctx.Done() ; <-time.After(nw) }.  A timer of
\* no more than 0 is ready at once; when both channels are ready, select
\* picks either of them.
Select ==
    /\ pc = "select"
    /\ waits' = Append(waits, nw)
    /\ events' = Append(events, "wait")
    /\ \/ /\ ctxDone
          /\ Return(t, err, "cancelled")
          /\ UNCHANGED << i, pulled, nw >>
       \/ /\ nw <= 0
          /\ Continue
       \/ /\ ~ctxDone
          /\ nw > 0
          /\ pc' = "waiting"
          /\ UNCHANGED << i, pulled, nw, ret, stop >>
    /\ UNCHANGED << seqVars, legVars, pauseSeq, arity, ctxDone, ctxErr, preCancelled, t, err,
                    calls, log >>

\* the timer fires while the driver is blocked in select
TimerFires_Never ==
    /\ pc = "waiting"
    /\ FALSE
    /\ UNCHANGED vars

TimerFires ==
    /\ pc = "waiting"
    /\ ~ctxDone
    /\ Continue
    /\ UNCHANGED << seqVars, legVars, pauseSeq, arity, ctxDone, ctxErr, preCancelled, t, err,
                    calls, log, waits, events >>

\* ctx.Done() wakes the driver blocked in select: Backoff returns
WaitCancelled_Unseen ==
    /\ pc = "waiting"
    /\ FALSE
    /\ UNCHANGED vars

WaitCancelled ==
    /\ pc = "waiting"
    /\ ctxDone
    /\ Return(t, err, "cancelled")
    /\ UNCHANGED << seqVars, legVars, pauseSeq, arity, ctxDone, ctxErr, preCancelled, i, pulled,
                    nw, t, err, calls, log, waits, events >>

\* the environment cancels the context (cancel() or the deadline)
Cancel(reason) ==
    /\ ~ctxDone
    /\ pc \notin {"entry", "done"}
    /\ ctxDone' = TRUE
    /\ ctxErr' = reason
    /\ UNCHANGED << seqVars, legVars, pauseSeq, arity, preCancelled, pc, i, pulled, nw, t, err, ret,
                    stop, calls, log, waits, events >>

Next ==
    \/ Enter
    \/ Invoke
    \/ \E o \in OpOutcomes, w \in Writes : OpReturn(o[1], o[2], w)
    \/ Select
    \/ TimerFires
    \/ WaitCancelled
    \/ \E reason \in CtxErrs : Cancel(reason)

Spec == Init /\ [][Next]_vars

\* Every invocation of f returns, every timer fires and the driver's own
\* steps are taken; nothing makes the environment cancel the context.
Fairness ==
    /\ WF_vars(Enter)
    /\ WF_vars(Invoke)
    /\ WF_vars(\E o \in OpOutcomes, w \in Writes : OpReturn(o[1], o[2], w))
    /\ WF_vars(Select)
    /\ WF_vars(TimerFires)
    /\ WF_vars(WaitCancelled)

\* the calls followed to their end: Retry0 and Retry1
LiveInit == Init /\ arity \in {0, 1}

SpecLive == LiveInit /\ [][Next]_vars /\ Fairness

\* ------------------------------------------------------------------------
\* Sequence combinators: Limit, Concat, Jitter.  One behaviour is one range
\* over the sequence a combinator returned; the consumer stops the range
\* when it likes (yield returns false).
\* ------------------------------------------------------------------------

\* durations the input sequences of a combinator hold
CombDurations == {0, 1, 3}

CombSeqs == { [items |-> s, tail |-> tl] :
                s \in SeqsUpTo(CombDurations, MaxLen),
                tl \in {NoTail, Const(0).tail, Const(3).tail} }

\* the lo and hi handed to IntervalJitter
IntervalBounds == {0 - 2, 0, 1}

\* the lo and hi handed to FactorJitter, in quarters: -1.0, 0.5, 2.0
FactorQuarters == {0 - 4, 2, 8}

\* the n handed to Limit
LimitNs == (0 - 2)..(MaxLen + 1)

\* no RetryN call is running
RetryIdle ==
    /\ pauseSeq = [items |-> << >>, tail |-> NoTail]
    /\ arity = 0
    /\ ctxDone = FALSE
    /\ ctxErr = NilErr
    /\ preCancelled = FALSE
    /\ pc = "idle"
    /\ i = 0
    /\ pulled = 0
    /\ nw = 0
    /\ t = << >>
    /\ err = NilErr
    /\ ret = << >>
    /\ stop = "idle"
    /\ calls = << >>
    /\ log = << >>
    /\ waits = << >>
    /\ events = << >>

SeqInit ==
    /\ RetryIdle
    /\ LegIdle
    /\ comb \in {"Limit", "Concat", "Jitter", "IntervalJitter", "FactorJitter"}
    /\ jitLo \in CASE comb = "IntervalJitter" -> IntervalBounds
                 [] comb = "FactorJitter" -> FactorQuarters
                 [] OTHER -> {0}
    /\ jitHi \in CASE comb = "IntervalJitter" ->
                        { h \in IntervalBounds : jitLo <= h }
                 [] comb = "FactorJitter" ->
                        { h \in FactorQuarters : jitLo <= h }
                 [] OTHER -> {0}
    /\ seqRound = 1
    /\ prevOut = << >>
    /\ IF comb = "Concat"
       THEN ins \in { << a, b >> : a \in CombSeqs, b \in CombSeqs }
       ELSE ins \in { << a >> : a \in CombSeqs }
    /\ IF comb = "Limit" THEN limitN \in LimitNs ELSE limitN = 0
    /\ limitN0 = limitN
    /\ concatIdx = IF comb = "Concat" THEN 1 ELSE 0
    /\ seqPc = "loop"
    /\ seqPulls = << >>
    /\ seqOut = << >>
    /\ haltAt = << >>

\* how many elements the iteration has taken from input j
PulledFrom(j) == Cardinality({ k \in 1..Len(seqPulls) : seqPulls[k][1] = j })

\* the next element of input j, as a sequence of length 0 (ended) or 1
NextOf(j) == SeqNth(ins[j], PulledFrom(j) + 1)

\* the iteration may go on: the model stops after MaxPulls pulls when an
\* input never ends
MayPull ==
    \/ Len(seqPulls) < MaxPulls
    \/ \A j \in 1..Len(ins) : IsFinite(ins[j])

\* yield(v): the consumer gets v and goes on (keep) or stops the range;
\* where is the position the combinator takes when yield returned false
Yield(v, keep, where) ==
    /\ seqOut' = Append(seqOut, v)
    /\ IF keep
       THEN seqPc' = "loop" /\ haltAt' = haltAt
       ELSE seqPc' = where /\ haltAt' = << Len(seqPulls') >>

\* Limit: if n <= 0 { return }
LimitReached_OffByOne(m) == m < 0

LimitReached(m) == m <= 0

\* one round of Limit's loop: for nw := range seq { ... }
LimitStep(keep) ==
    /\ comb = "Limit"
    /\ seqPc = "loop"
    /\ MayPull
    /\ LET nx == NextOf(1)
       IN  IF nx = << >>
           THEN /\ seqPc' = "done"
                /\ UNCHANGED << limitN, seqPulls, seqOut, haltAt >>
           ELSE /\ seqPulls' = Append(seqPulls, << 1, nx[1] >>)
                /\ IF LimitReached(limitN)
                   THEN /\ seqPc' = "done"
                        /\ UNCHANGED << limitN, seqOut, haltAt >>
                   ELSE /\ limitN' = limitN - 1
                        /\ Yield(nx[1], keep, "stopped")
    /\ UNCHANGED << retryVars, legVars, comb, jitLo, jitHi, seqRound, prevOut,
                    ins, limitN0, concatIdx >>

\* Concat when yield returned false during the range over seqs[idx]: return.
\* The result is the position and the index the iteration goes on with.
ConcatOnStop_Break(idx) ==
    << IF idx + 1 > Len(ins) THEN "done" ELSE "loop", idx + 1 >>

ConcatOnStop(idx) == << "stopped", idx >>

\* one round of Concat's loops: for _, s := range seqs { for nw := range s }
ConcatStep(keep) ==
    /\ comb = "Concat"
    /\ seqPc = "loop"
    /\ MayPull
    /\ LET nx == NextOf(concatIdx)
       IN  IF nx = << >>
           THEN /\ concatIdx' = concatIdx + 1
                /\ seqPc' = IF concatIdx + 1 > Len(ins) THEN "done" ELSE "loop"
                /\ UNCHANGED << seqPulls, seqOut, haltAt >>
           ELSE /\ seqPulls' = Append(seqPulls, << concatIdx, nx[1] >>)
                /\ Yield(nx[1], keep, ConcatOnStop(concatIdx)[1])
                /\ concatIdx' = IF keep THEN concatIdx
                                ELSE ConcatOnStop(concatIdx)[2]
    /\ UNCHANGED << retryVars, legVars, comb, jitLo, jitHi, seqRound, prevOut,
                    ins, limitN, limitN0 >>

\* rand.N(d): a value of [0, d); it panics when d <= 0
RandN(d) == 0..(d - 1)

RandNPanics(d) == d <= 0

\* one round of Jitter's loop: for nw := range seq { yield(rand.N(nw)) }
JitterStep(keep) ==
    /\ comb = "Jitter"
    /\ seqPc = "loop"
    /\ MayPull
    /\ LET nx == NextOf(1)
       IN  IF nx = << >>
           THEN /\ seqPc' = "done"
                /\ UNCHANGED << seqPulls, seqOut, haltAt >>
           ELSE /\ seqPulls' = Append(seqPulls, << 1, nx[1] >>)
                /\ IF RandNPanics(nx[1])
                   THEN /\ seqPc' = "panic"
                        /\ UNCHANGED << seqOut, haltAt >>
                   ELSE \E v \in RandN(nx[1]) : Yield(v, keep, "stopped")
    /\ UNCHANGED << retryVars, legVars, comb, jitLo, jitHi, seqRound, prevOut,
                    ins, limitN, limitN0, concatIdx >>

\* max(nw, 0)
Clamp(v) == IF v < 0 THEN 0 ELSE v

\* one round of IntervalJitter's loop:
\* for nw := range seq { nw += lo + rand.N(hi-lo); yield(max(nw, 0)) }
IntervalJitterStep(keep) ==
    /\ comb = "IntervalJitter"
    /\ seqPc = "loop"
    /\ MayPull
    /\ LET nx == NextOf(1)
       IN  IF nx = << >>
           THEN /\ seqPc' = "done"
                /\ UNCHANGED << seqPulls, seqOut, haltAt >>
           ELSE /\ seqPulls' = Append(seqPulls, << 1, nx[1] >>)
                /\ IF RandNPanics(jitHi - jitLo)
                   THEN /\ seqPc' = "panic"
                        /\ UNCHANGED << seqOut, haltAt >>
                   ELSE \E x \in RandN(jitHi - jitLo) :
                           Yield(Clamp(nx[1] + jitLo + x), keep, "stopped")
    /\ UNCHANGED << retryVars, legVars, comb, jitLo, jitHi, seqRound, prevOut,
                    ins, limitN, limitN0, concatIdx >>

\* rand.Float64(), a value of [0, 1), in halves: 0 and 1/2
RandFloatHalves == {0, 1}

\* f := lo + rand.Float64()*(hi-lo), in quarters
Factor(lo, hi, x) == lo + (x * (hi - lo)) \div 2

\* time.Duration(float64(nw) * f) for nw >= 0; below zero the floor taken
\* here and Go's truncation differ, and both are clamped to 0
Scale(d, f) == (d * f) \div 4

\* one round of FactorJitter's loop
FactorJitterStep(keep) ==
    /\ comb = "FactorJitter"
    /\ seqPc = "loop"
    /\ MayPull
    /\ LET nx == NextOf(1)
       IN  IF nx = << >>
           THEN /\ seqPc' = "done"
                /\ UNCHANGED << seqPulls, seqOut, haltAt >>
           ELSE /\ seqPulls' = Append(seqPulls, << 1, nx[1] >>)
                /\ \E x \in RandFloatHalves :
                      Yield(Clamp(Scale(nx[1], Factor(jitLo, jitHi, x))),
                            keep, "stopped")
    /\ UNCHANGED << retryVars, legVars, comb, jitLo, jitHi, seqRound, prevOut,
                    ins, limitN, limitN0, concatIdx >>

SeqNext ==
    \/ \E keep \in BOOLEAN : LimitStep(keep)
    \/ \E keep \in BOOLEAN : ConcatStep(keep)
    \/ \E keep \in BOOLEAN : JitterStep(keep)
    \/ \E keep \in BOOLEAN : IntervalJitterStep(keep)
    \/ \E keep \in BOOLEAN : FactorJitterStep(keep)

SpecSeq == SeqInit /\ [][SeqNext]_vars

\* The same sequence value is ranged over a second time, as when it is
\* handed to two successive Backoff or RetryN calls.  The iterator function
\* runs again from its top: its local variables are new, the variables it
\* captured from the constructor call (Limit's n) are the ones it left.
SeqAgain ==
    /\ seqRound = 1
    /\ seqPc \in {"done", "stopped"}
    /\ seqRound' = 2
    /\ prevOut' = IF seqPc = "done" /\ haltAt = << >> THEN << seqOut >> ELSE << >>
    /\ seqPc' = "loop"
    /\ seqPulls' = << >>
    /\ seqOut' = << >>
    /\ haltAt' = << >>
    /\ concatIdx' = IF comb = "Concat" THEN 1 ELSE 0
    /\ UNCHANGED << retryVars, legVars, comb, jitLo, jitHi, ins, limitN, limitN0 >>

ReuseNext ==
    \/ SeqNext
    \/ SeqAgain

SpecReuse == SeqInit /\ [][ReuseNext]_vars

\* ------------------------------------------------------------------------
\* The legacy Retrier: NewRetrier(options...).Do(callback).  Intervals are
\* in seconds.  The callback is the environment: each invocation returns an
\* error or nil and may call SetNextInterval and Break.
\* ------------------------------------------------------------------------

\* the callback's errors (errDummy and another one)
LegErrs == { <<"this makes it retry">>, <<"another error">> }

\* what the callback hands to SetNextInterval, if it calls it
SetIntervals == { << >>, << 0 >>, << 4 >> }

RECURSIVE Pow(_, _)
Pow(b, k) == IF k = 0 THEN 1 ELSE b * Pow(b, k - 1)

\* Constant(d) and Exponential(base, adjustment)
Constant(d) == [kind |-> "constant", d |-> d, adj |-> 0]

Exponential(base, adjustment) ==
    [kind |-> "exponential", d |-> base, adj |-> adjustment]

Strategies == { Constant(0), Constant(2), Exponential(2, 0), Exponential(2, 3) }

\* the interval a strategy computes for a retrier that marked cnt attempts
StrategyInterval(st, cnt) ==
    IF st.kind = "constant" THEN st.d ELSE Pow(st.d, cnt) + st.adj

LegInit ==
    /\ RetryIdle
    /\ SeqIdle
    /\ strategy \in Strategies
    /\ \/ forever = TRUE /\ maxAttempts = 0
       \/ forever = FALSE /\ maxAttempts \in 1..MaxCalls
    /\ attemptCount = 0
    /\ nextInterval = 0
    /\ breakFlag = FALSE
    /\ legPc = "top"
    /\ sleeps = << >>
    /\ legLog = << >>
    /\ legRet = << >>
    /\ \/ legCtxDone = FALSE /\ legCtxErr = NilErr
       \/ legCtxDone = TRUE /\ legCtxErr \in CtxErrs
    /\ legPreCancelled = legCtxDone

\* the top of Do's loop: the next interval is computed and cached, then the
\* callback is invoked
LegAttempt ==
    /\ legPc = "top"
    /\ forever => Len(legLog) < MaxCalls
    /\ nextInterval' = StrategyInterval(strategy, attemptCount)
    /\ legPc' = "callback"
    /\ UNCHANGED << retryVars, seqVars, strategy, forever, maxAttempts,
                    attemptCount, breakFlag, sleeps, legLog, legRet,
                    legCtxDone, legCtxErr, legPreCancelled >>

\* SetNextInterval(d), or no call of it
SetNextInterval_Ignored(cur, set) == cur

SetNextInterval(cur, set) == IF set = << >> THEN cur ELSE set[1]

\* the break flag ends the loop
BreakRequested_Ignored(brk) == FALSE

BreakRequested(brk) == brk

\* ShouldGiveUp(): the attempts marked have reached the maximum
ShouldGiveUp_OffByOne(cnt) == ~forever /\ cnt > maxAttempts

ShouldGiveUp(cnt) == ~forever /\ cnt >= maxAttempts

\* AttemptCount(): the attempts marked so far
AttemptCount == attemptCount

\* MarkAttempt(): one more attempt was made
MarkAttempt_Skip(cnt) == cnt

MarkAttempt(cnt) == cnt + 1

\* the attempt number String() prints, "Attempt <number>/<maximum> ..."
StringAttempt(cnt) == cnt + 1

\* the callback returns e, having called SetNextInterval (set) and Break
\* (brk) or not; Do returns nil on success, marks the attempt, returns the
\* error on break or when it gives up, and sleeps otherwise
LegCallback(e, set, brk) ==
    /\ legPc = "callback"
    /\ LET iv  == SetNextInterval(nextInterval, set)
           cnt == MarkAttempt(attemptCount)
       IN  /\ nextInterval' = iv
           /\ breakFlag' = (breakFlag \/ brk)
           /\ legLog' = Append(legLog, [count |-> AttemptCount,
                                        printed |-> StringAttempt(AttemptCount),
                                        computed |-> nextInterval,
                                        slept |-> Len(sleeps),
                                        set |-> set, broke |-> brk,
                                        err |-> e])
           /\ IF e = NilErr
              THEN /\ legPc' = "done"
                   /\ legRet' = << NilErr >>
                   /\ UNCHANGED attemptCount
              ELSE /\ attemptCount' = cnt
                   /\ IF BreakRequested(breakFlag') \/ ShouldGiveUp(cnt)
                      THEN legPc' = "done" /\ legRet' = << e >>
                      ELSE legPc' = "sleep" /\ legRet' = legRet
    /\ UNCHANGED << retryVars, seqVars, strategy, forever, maxAttempts, sleeps,
                    legCtxDone, legCtxErr, legPreCancelled >>

\* the sleep step sees the context's token once it has fired
TokenFired_Unseen(done) == FALSE

TokenFired(done) == done

\* the token has not fired: the sleep function gets the cached next interval
\* (the insomniac of the tests notes it down) and the wait elapses
LegSleep ==
    /\ legPc = "sleep"
    /\ ~TokenFired(legCtxDone)
    /\ sleeps' = Append(sleeps, nextInterval)
    /\ legPc' = "top"
    /\ UNCHANGED << retryVars, seqVars, strategy, forever, maxAttempts,
                    attemptCount, nextInterval, breakFlag, legLog, legRet,
                    legCtxDone, legCtxErr, legPreCancelled >>

\* the token fired first: DoWithContext returns the token's reason
LegSleepCancelled ==
    /\ legPc = "sleep"
    /\ TokenFired(legCtxDone)
    /\ legPc' = "done"
    /\ legRet' = << legCtxErr >>
    /\ UNCHANGED << retryVars, seqVars, strategy, forever, maxAttempts,
                    attemptCount, nextInterval, breakFlag, sleeps, legLog,
                    legCtxDone, legCtxErr, legPreCancelled >>

\* the environment cancels the context of a running DoWithContext, or its
\* deadline passes
LegCancel(reason) ==
    /\ legPc \in {"top", "callback", "sleep"}
    /\ ~legCtxDone
    /\ legCtxDone' = TRUE
    /\ legCtxErr' = reason
    /\ UNCHANGED << retryVars, seqVars, strategy, forever, maxAttempts,
                    attemptCount, nextInterval, breakFlag, legPc, sleeps,
                    legLog, legRet, legPreCancelled >>

LegNext ==
    \/ LegAttempt
    \/ \E e \in LegErrs \cup {NilErr}, set \in SetIntervals, brk \in BOOLEAN :
          LegCallback(e, set, brk)
    \/ LegSleep
    \/ LegSleepCancelled
    \/ \E reason \in CtxErrs : LegCancel(reason)

SpecRetrier == LegInit /\ [][LegNext]_vars

\* ------------------------------------------------------------------------
\* Vocabulary of the properties
\* ------------------------------------------------------------------------

Done == pc = "done"

IsTransient(e) == e # NilErr /\ ~ErrorsIs(e, ErrUnrecoverable)

\* every invocation so far failed transiently
AlwaysTransient == \A k \in 1..Len(log) : IsTransient(log[k].err)

\* no invocation so far wrote to the handle
NeverWrote == \A k \in 1..Len(log) : log[k].wrote = NoWrite

\* the pause sequence is finite and holds non-negative durations only
FiniteNonNegative ==
    /\ IsFinite(pauseSeq)
    /\ \A k \in 1..Len(pauseSeq.items) : pauseSeq.items[k] >= 0

\* the run is over, f always failed transiently and never wrote to the
\* handle, and the context was never cancelled
PlainRunOver ==
    /\ Done
    /\ FiniteNonNegative
    /\ AlwaysTransient
    /\ NeverWrote
    /\ ~ctxDone

\* the pause sequence has elements the driver has not taken yet
ElementsLeft == SeqNth(pauseSeq, pulled + 1) # << >>

LastEvent == IF events = << >> THEN "none" ELSE events[Len(events)]

\* invocation k was the last thing the driver did before it returned
ReturnedAfterCall(k) ==
    /\ Done
    /\ Len(log) = k
    /\ Len(calls) = k
    /\ Len(waits) = k - 1
    /\ LastEvent = "return"

\* ------------------------------------------------------------------------
\* Properties
\* ------------------------------------------------------------------------

\* C1: over a finite sequence of n non-negative pauses, with an operation
\* that always fails transiently and never writes to the handle and a
\* context that is never cancelled, RetryN invokes the operation exactly
\* n+1 times, with the iteration indices 0, 1, ..., n in that order.
C1_Count ==
    PlainRunOver =>
        calls = [ k \in 1..(Len(pauseSeq.items) + 1) |-> k - 1 ]

C1_Witness ==
    /\ PlainRunOver
    /\ Len(pauseSeq.items) = 2
    /\ calls = << 0, 1, 2 >>

\* C2: under the same conditions the driver performs exactly n waits, the
\* k-th of them for the k-th duration of the sequence; the sentinel is never
\* waited on.
C2_Waits ==
    PlainRunOver =>
        /\ waits = pauseSeq.items
        /\ \A k \in 1..Len(waits) : waits[k] >= 0

C2_Witness ==
    /\ PlainRunOver
    /\ pauseSeq.items = << 1, 0 >>
    /\ waits = << 1, 0 >>

\* C3: an invocation that returns a nil error is the last one: RetryN returns
\* at once that invocation's values and a nil error, after exactly k-1 waits
\* when it was the k-th invocation, and no wait follows it.
C3_Success ==
    \A k \in 1..Len(log) :
        log[k].err = NilErr =>
            /\ ReturnedAfterCall(k)
            /\ ret = << log[k].vals, NilErr >>

C3_Witness ==
    /\ Done
    /\ Len(log) = 3
    /\ IsTransient(log[1].err)
    /\ IsTransient(log[2].err)
    /\ log[3].err = NilErr
    /\ log[3].vals # log[2].vals
    /\ Len(waits) = 2
    /\ ret = << log[3].vals, NilErr >>

\* C4: an invocation that returns an error wrapping ErrUnrecoverable is the
\* last one: RetryN returns at once that very error with the values of that
\* same invocation, after exactly k-1 waits when it was the k-th invocation,
\* whatever is left of the pause sequence.
C4_Unrecoverable ==
    \A k \in 1..Len(log) :
        ErrorsIs(log[k].err, ErrUnrecoverable) =>
            /\ ReturnedAfterCall(k)
            /\ ret = << log[k].vals, log[k].err >>

C4_Witness ==
    /\ Done
    /\ Len(log) = 2
    /\ IsTransient(log[1].err)
    /\ log[2].err = << "catastrophic error", ErrUnrecoverable >>
    /\ log[2].vals # log[1].vals
    /\ log[2].vals # ZeroVals(arity)
    /\ ElementsLeft
    /\ Len(waits) = 1
    /\ ret = << log[2].vals, log[2].err >>

\* C5: an invocation that writes a negative duration to the handle and
\* returns a transient error is the last one: no wait follows it, the next
\* iteration never starts and RetryN returns that invocation's error,
\* whatever is left of the pause sequence.
C5_Override ==
    \A k \in 1..Len(log) :
        ( /\ log[k].wrote # NoWrite
          /\ log[k].wrote[1] < 0
          /\ IsTransient(log[k].err) ) =>
            /\ ReturnedAfterCall(k)
            /\ ret[2] = log[k].err

C5_Witness ==
    /\ Done
    /\ Len(log) = 2
    /\ log[2].wrote = << SentinelDuration >>
    /\ IsTransient(log[2].err)
    /\ log[1].err # log[2].err
    /\ ElementsLeft
    /\ SeqNth(pauseSeq, pulled)[1] >= 0
    /\ ret[2] = log[2].err

\* C6: with a context that is already cancelled when RetryN is called and a
\* pause sequence that never ends, the operation is invoked exactly once.
C6_PreCancelledOnce ==
    ( preCancelled /\ ~IsFinite(pauseSeq) ) =>
        /\ Len(calls) <= 1
        /\ Done => Len(calls) = 1

\* C7: when the driver stops because the context was found cancelled in the
\* wait, the error RetryN returns is the context's reason.
C7_CancelReason ==
    stop = "cancelled" => ret[2] = ctxErr

\* C8: when the loop ends without a success or an unrecoverable error (the
\* sequence is exhausted or the pause is negative), RetryN returns the values
\* and the error of the last invocation.
C8_LastOutcome ==
    stop \in {"exhausted", "negative"} =>
        /\ Len(log) >= 1
        /\ ret = << log[Len(log)].vals, log[Len(log)].err >>

C8_Witness ==
    /\ stop = "negative"
    /\ arity = 2
    /\ Len(log) = 3
    /\ NeverWrote
    /\ log[3].err # log[2].err
    /\ log[3].vals # log[2].vals
    /\ log[2].err # log[1].err
    /\ ret = << log[3].vals, log[3].err >>

\* C9: the operation is invoked at least once in every run, and the first
\* invocation comes before any look at the context and before any wait.
C9_FirstCall ==
    /\ Done => Len(calls) >= 1
    /\ events # << >> => events[1] = "call"
    /\ pc \in {"select", "waiting"} => Len(log) >= 1
    /\ stop = "cancelled" => Len(log) >= 1

C9_Witness ==
    /\ preCancelled
    /\ Done
    /\ stop = "cancelled"
    /\ calls = << 0 >>
    /\ events = << "call", "return", "wait" >>

\* C10: the events of one driver strictly alternate: every invocation
\* returns before a wait starts, exactly one wait lies between two successive
\* invocations, no wait comes before the first invocation, and iteration k+1
\* follows iteration k.
C10_Alternation ==
    /\ \A k \in 1..Len(events) :
          events[k] = ( IF k % 3 = 1 THEN "call"
                        ELSE IF k % 3 = 2 THEN "return"
                        ELSE "wait" )
    /\ \A k \in 1..Len(calls) : calls[k] = k - 1
    /\ pc = "running" <=> LastEvent = "call"

C10_Witness ==
    /\ Done
    /\ calls = << 0, 1, 2 >>
    /\ events = << "call", "return", "wait", "call", "return", "wait",
                   "call", "return" >>

\* the operation never returned a nil error
NeverSucceeded == \A k \in 1..Len(log) : log[k].err # NilErr

\* C11: in a finished run over a finite pause sequence in which the
\* operation never succeeded and the context was never cancelled, the number
\* of waits is the number of invocations minus one and no wait follows the
\* last invocation, whatever the operation wrote to the handle.
C11_WaitsOneLess ==
    ( Done /\ IsFinite(pauseSeq) /\ NeverSucceeded /\ ~ctxDone ) =>
        /\ Len(waits) = Len(calls) - 1
        /\ LastEvent = "return"

\* C12: over a finite sequence of n non-negative pauses, with a consumer
\* that neither stops nor writes to the handle and a context that is never
\* cancelled, Backoff yields exactly n+1 pairs: pair k carries index k and
\* the k-th pause, the last one index n and the negative SentinelDuration.
C12_Pairs ==
    PlainRunOver =>
        LET n == Len(pauseSeq.items)
        IN  /\ Len(log) = n + 1
            /\ \A k \in 1..n :
                  log[k].idx = k - 1 /\ log[k].given = pauseSeq.items[k]
            /\ log[n + 1].idx = n
            /\ log[n + 1].given = SentinelDuration
            /\ log[n + 1].given < 0

C12_Witness ==
    /\ PlainRunOver
    /\ pauseSeq.items = << 0, 1 >>
    /\ Len(log) = 3
    /\ log[1].given = 0
    /\ log[2].given = 1
    /\ log[3].given = SentinelDuration

\* invocation k overwrote the handle with a non-negative duration
WroteNonNegative(k) == log[k].wrote # NoWrite /\ log[k].wrote[1] >= 0

\* C13: when the consumer overwrites the handle with a non-negative d'
\* during an iteration, the wait after that iteration is started with d',
\* and the next iteration gets the next index and a handle holding the next
\* element of the sequence, as without the override.
C13_OverrideOnce ==
    \A k \in 1..Len(log) :
        WroteNonNegative(k) =>
            /\ Len(waits) >= k => waits[k] = log[k].wrote[1]
            /\ Len(log) > k =>
                  /\ log[k + 1].idx = log[k].idx + 1
                  /\ log[k + 1].given = appendSentiel(pauseSeq, k + 1)[1]
            /\ log[k].given = appendSentiel(pauseSeq, k)[1]

C13_Witness ==
    /\ Len(log) = 3
    /\ pauseSeq.items = << 0, 1 >>
    /\ WroteNonNegative(1)
    /\ log[2].wrote = NoWrite
    /\ waits = << 2, 1 >>
    /\ log[2].given = 1
    /\ log[3].given = SentinelDuration

\* iteration k got a negative duration that the pause sequence produced
NegativeFromSeq(k) == k <= Len(pauseSeq.items) /\ pauseSeq.items[k] < 0

\* iteration k was the last one: no wait, no further element taken
FinalIteration(k) == ReturnedAfterCall(k) /\ pulled = k

Min(a, b) == IF a <= b THEN a ELSE b

Max(a, b) == IF a >= b THEN a ELSE b

\* the elements the iteration took from input j, in order
TakenFrom(j) ==
    LET F[k \in 0..Len(seqPulls)] ==
            IF k = 0 THEN << >>
            ELSE IF seqPulls[k][1] = j THEN Append(F[k - 1], seqPulls[k][2])
            ELSE F[k - 1]
    IN  F[Len(seqPulls)]

\* the first m elements of seq (m within what the model explores)
FirstOf(seq, m) == [ k \in 1..m |-> SeqNth(seq, k)[1] ]

\* the iteration ran to its end and the consumer never stopped it
FullIteration == seqPc = "done" /\ haltAt = << >>

\* C15: a full iteration of Limit(n, seq) yields exactly the first
\* min(max(n, 0), |seq|) elements of seq, in order and unchanged; for n <= 0
\* it yields nothing; it never panics.
C15_Limit ==
    comb = "Limit" =>
        /\ seqPc # "panic"
        /\ FullIteration =>
              LET want == IF IsFinite(ins[1])
                          THEN Min(Max(limitN0, 0), Len(ins[1].items))
                          ELSE Max(limitN0, 0)
              IN  seqOut = FirstOf(ins[1], want)
        /\ limitN0 <= 0 => seqOut = << >>

C15_Witness ==
    /\ comb = "Limit"
    /\ FullIteration
    /\ limitN0 = 2
    /\ ~IsFinite(ins[1])
    /\ ins[1].items = << 1 >>
    /\ seqOut = << 1, 3 >>

\* C16: Concat(a, b) over finite a and b yields the elements of a in order,
\* then those of b; nothing is taken from b before a has ended; and once the
\* consumer has stopped nothing more is taken or yielded.
C16_Concat ==
    ( comb = "Concat" /\ IsFinite(ins[1]) /\ IsFinite(ins[2]) ) =>
        /\ FullIteration => seqOut = ins[1].items \o ins[2].items
        /\ seqOut = TakenFrom(1) \o TakenFrom(2)
        /\ \A k \in 1..Len(seqPulls) :
              seqPulls[k][1] = 2 =>
                  /\ k > Len(ins[1].items)
                  /\ \A m \in 1..Len(ins[1].items) : seqPulls[m][1] = 1
        /\ haltAt # << >> =>
              /\ seqPc = "stopped"
              /\ Len(seqPulls) = haltAt[1]
              /\ Len(seqOut) = haltAt[1]

C16_Witness ==
    /\ comb = "Concat"
    /\ FullIteration
    /\ ins[1] = [items |-> << 1, 0 >>, tail |-> NoTail]
    /\ ins[2] = [items |-> << 3, 1 >>, tail |-> NoTail]
    /\ seqOut = << 1, 0, 3, 1 >>

\* C17: for every input element d >= 0, d = 0 included, Jitter(seq) yields
\* a value v with 0 <= v <= d, and does not panic.
C17_Jitter ==
    comb = "Jitter" =>
        /\ seqPc # "panic"
        /\ Len(seqOut) = Len(seqPulls)
        /\ \A k \in 1..Len(seqOut) :
              0 <= seqOut[k] /\ seqOut[k] <= seqPulls[k][2]

\* ------------------------------------------------------------------------
\* Properties of the legacy Retrier
\* ------------------------------------------------------------------------

LegDone == legPc = "done"

LegRunning == legPc # "idle"

AlwaysFailed == \A k \in 1..Len(legLog) : legLog[k].err # NilErr

NeverBroke == \A k \in 1..Len(legLog) : ~legLog[k].broke

\* C18: with WithMaxAttempts(N), N >= 1, a callback that always fails and
\* never calls Break is invoked exactly N times, the sleep function is
\* called exactly N-1 times, one call between two invocations and none
\* after the N-th, and Do returns the callback's error.
C18_MaxAttempts ==
    ( LegRunning /\ ~legCtxDone /\ ~forever /\ AlwaysFailed /\ NeverBroke ) =>
        /\ Len(legLog) <= maxAttempts
        /\ Len(sleeps) <= maxAttempts - 1
        /\ \A k \in 1..Len(legLog) : legLog[k].slept = k - 1
        /\ LegDone <=> ( Len(legLog) = maxAttempts /\ legPc # "sleep" )
        /\ LegDone =>
              /\ Len(sleeps) = maxAttempts - 1
              /\ legRet = << legLog[maxAttempts].err >>

C18_Witness ==
    /\ LegDone /\ ~legCtxDone /\ ~forever /\ AlwaysFailed /\ NeverBroke
    /\ maxAttempts = 3
    /\ strategy = Exponential(2, 3)
    /\ \A k \in 1..Len(legLog) : legLog[k].set = << >>
    /\ Len(legLog) = 3
    /\ sleeps = << 4, 5 >>

\* C19: an invocation in which the callback calls Break() is the last one:
\* no sleep and no invocation follow it, whatever the maximum is, and Do
\* returns what that invocation returned, its error or nil.
C19_Break ==
    \A k \in 1..Len(legLog) :
        legLog[k].broke =>
            /\ k = Len(legLog)
            /\ Len(sleeps) = legLog[k].slept
            /\ LegDone
            /\ legRet = << legLog[k].err >>

C19_Witness ==
    /\ Len(legLog) = 2
    /\ legLog[2].broke
    /\ legLog[2].err # NilErr
    /\ ~forever /\ maxAttempts = 3
    /\ LegDone

\* C20: the duration the callback hands to SetNextInterval during an
\* invocation is what the sleep function gets for the wait right after that
\* invocation; a wait after an invocation that did not call it gets the
\* value the strategy computed for that attempt.
C20_SetNextInterval ==
    /\ \A k \in 1..Len(legLog) :
          legLog[k].computed = StrategyInterval(strategy, legLog[k].count)
    /\ \A k \in 1..Len(sleeps) :
          sleeps[k] = IF legLog[k].set # << >>
                      THEN legLog[k].set[1]
                      ELSE StrategyInterval(strategy, legLog[k].count)

C20_Witness ==
    /\ strategy = Constant(2)
    /\ Len(legLog) = 3
    /\ legLog[1].set = << 4 >>
    /\ legLog[2].set = << >>
    /\ sleeps = << 4, 2 >>

\* C21 as stated: AttemptCount() read inside the k-th invocation is k, the
\* attempt number String() prints for that invocation.
C21_OneBased ==
    \A k \in 1..Len(legLog) :
        legLog[k].count = k /\ legLog[k].printed = legLog[k].count

\* C21 as the tests have it: AttemptCount() read inside the k-th invocation
\* is k - 1, the number of failed invocations before it, and String() prints
\* k, one more than AttemptCount().
C21_ZeroBased ==
    \A k \in 1..Len(legLog) :
        /\ legLog[k].count = k - 1
        /\ legLog[k].printed = k
        /\ legLog[k].printed = legLog[k].count + 1

C21_Witness ==
    /\ forever
    /\ Len(legLog) = 3
    /\ legLog[3].count = 2
    /\ legLog[3].printed = 3

\* C22: DoWithContext with a context that is already cancelled, TryForever
\* and a callback that always fails invokes the callback once and returns
\* the context's error, not the callback's: the sleep step after the first
\* invocation sees the cancellation.
C22_PreCancelled ==
    ( legPreCancelled /\ forever /\ AlwaysFailed /\ NeverBroke ) =>
        /\ Len(legLog) <= 1
        /\ sleeps = << >>
        /\ LegDone =>
              /\ Len(legLog) = 1
              /\ legRet = << legCtxErr >>
              /\ legRet # << legLog[1].err >>

C22_Witness ==
    /\ legPreCancelled /\ forever /\ AlwaysFailed /\ NeverBroke
    /\ strategy = Constant(2)
    /\ LegDone
    /\ Len(legLog) = 1
    /\ legRet = << <<"context canceled">> >>

\* ------------------------------------------------------------------------
\* Properties of sequence values used more than once
\* ------------------------------------------------------------------------

\* C23: a sequence built with Const, Limit and Concat holds no state shared
\* between iterations: a second range over the same value that runs to its
\* end yields the elements the first one yielded.
C23_NoSharedState ==
    ( comb \in {"Limit", "Concat"} /\ seqRound = 2 /\ prevOut # << >>
      /\ FullIteration ) =>
        seqOut = prevOut[1]

\* ------------------------------------------------------------------------
\* Properties of the retry loop as a whole
\* ------------------------------------------------------------------------

\* the handle's value when the k-th invocation returned
HandleAtReturn(k) == HandleAfter(log[k].given, log[k].wrote)

\* the k-th iteration is the one of the sentinel appended to pauseSeq
SentinelIteration(k) == SeqNth(pauseSeq, k) = << >>

\* what the k-th invocation left allows another iteration
MayGoOn(k) ==
    /\ IsTransient(log[k].err)
    /\ HandleAtReturn(k) >= 0
    /\ ~SentinelIteration(k)

\* every invocation but the first follows an iteration that may go on, and
\* a call that returned after an iteration that may go on was cancelled in
\* its wait
InvokedOnlyAfterGoOn ==
    /\ \A k \in 1..(Len(calls) - 1) : k <= Len(log) /\ MayGoOn(k)
    /\ ( Done /\ log # << >> /\ Len(log) = Len(calls) /\ MayGoOn(Len(log)) ) =>
           stop = "cancelled"

\* a wait that ends with the next iteration ends while the token has not
\* fired
WaitElapsedBeforeToken ==
    ( pc \in {"select", "waiting"} /\ pc' = "yield" ) => ~ctxDone

\* C24: the invocation for iteration i+1 starts if and only if in iteration
\* i the operation returned an error that is not nil and does not wrap
\* ErrUnrecoverable, the handle was not negative when it returned, the wait
\* elapsed before the token fired and the iteration was not the sentinel's;
\* otherwise the driver returns without another invocation.
C24_NextInvocation == []InvokedOnlyAfterGoOn /\ [][WaitElapsedBeforeToken]_vars

\* the pauses of pauseSeq are positive and never end
PositiveForever ==
    /\ ~IsFinite(pauseSeq)
    /\ pauseSeq.tail[1] > 0
    /\ \A k \in 1..Len(pauseSeq.items) : pauseSeq.items[k] > 0

\* the model follows an endless sequence for MaxCalls invocations only
Horizon == ~IsFinite(pauseSeq) /\ pc = "yield" /\ Len(calls) >= MaxCalls

\* a call that was cancelled has returned, from a wait, with every
\* invocation it started finished
CancelledInWait ==
    stop = "cancelled" =>
        /\ Done
        /\ ctxDone
        /\ LastEvent = "wait"
        /\ Len(log) = Len(calls)

\* a token that fires while f runs leaves the invocation running
NotInterrupted ==
    ( pc = "running" /\ ~ctxDone /\ ctxDone' ) =>
        ( pc' = "running" /\ calls' = calls /\ log' = log )

\* after a return no invocation starts
NoCallAfterReturn == Done => ( calls' = calls /\ pc' = "done" )

\* C25: a token seen fired in a wait aborts the wait, the operation is not
\* invoked again and the driver returns; so with positive pauses that never
\* end, once the token has fired the call returns.  A token that fires
\* while the operation runs does not interrupt it and is acted on in the
\* wait that follows.
C25_Cancellation ==
    /\ []CancelledInWait
    /\ [][NotInterrupted /\ NoCallAfterReturn]_vars
    /\ ( ( PositiveForever /\ ctxDone ) ~> ( Done \/ Horizon ) )

C25_Witness ==
    /\ Done
    /\ stop = "cancelled"
    /\ ~preCancelled
    /\ pauseSeq = Const(1)
    /\ AlwaysTransient
    /\ Len(calls) = 2

\* C26: over a finite pauseSeq of n elements the operation is invoked at
\* most n + 1 times and never with an index above n, whatever it returns
\* and writes to the handle and whenever the context is cancelled.
C26_AtMostNPlusOne ==
    IsFinite(pauseSeq) =>
        /\ Len(calls) <= Len(pauseSeq.items) + 1
        /\ \A k \in 1..Len(calls) :
              calls[k] = k - 1 /\ calls[k] <= Len(pauseSeq.items)

C26_Witness ==
    /\ IsFinite(pauseSeq)
    /\ Len(pauseSeq.items) = 1
    /\ Done
    /\ Len(calls) = 2
    /\ log[1].wrote = << 2 >>
    /\ log[2].wrote = << 2 >>
    /\ waits = << 2, 2 >>

\* C27: every call over a finite pauseSeq returns, provided each invocation
\* returns and each timer fires.
C27_Terminates == IsFinite(pauseSeq) => <>Done

C27_Witness ==
    /\ IsFinite(pauseSeq)
    /\ Len(pauseSeq.items) = MaxLen
    /\ Done
    /\ stop = "exhausted"
    /\ ~ctxDone
    /\ Len(calls) = MaxLen + 1

\* ------------------------------------------------------------------------
\* Properties of the jitter combinators and of Limit's pulls
\* ------------------------------------------------------------------------

Jitters == {"Jitter", "IntervalJitter", "FactorJitter"}

\* one element yielded for every element taken, the range over the input
\* ended exactly when the iteration ended, nothing taken once the consumer
\* stopped
OnePullPerYield ==
    /\ Len(seqOut) = Len(seqPulls)
    /\ seqPc = "done" => ( IsFinite(ins[1]) /\ Len(seqOut) = Len(ins[1].items) )
    /\ haltAt # << >> =>
          ( seqPc = "stopped" /\ Len(seqPulls) = haltAt[1] )
    /\ seqPc \in {"loop", "done", "stopped"}

\* C28: Jitter, IntervalJitter and FactorJitter take exactly one element of
\* the input for every element they yield, yield as many elements as the
\* input has, end exactly when the input ends and take nothing more once
\* the consumer has stopped.
C28_LengthPreserving == comb \in Jitters => OnePullPerYield

\* C29: for lo <= hi, lo = hi included, IntervalJitter(lo, hi, seq) does
\* not panic and yields for every input element d a value v with
\* max(0, d + lo) <= v <= max(0, d + hi), so never a negative one.
C29_IntervalJitter ==
    ( comb = "IntervalJitter" /\ jitLo <= jitHi ) =>
        /\ seqPc # "panic"
        /\ Len(seqOut) = Len(seqPulls)
        /\ \A k \in 1..Len(seqOut) :
              /\ Clamp(seqPulls[k][2] + jitLo) <= seqOut[k]
              /\ seqOut[k] <= Clamp(seqPulls[k][2] + jitHi)
              /\ seqOut[k] >= 0

\* C30: Limit(n, seq) takes from seq only elements it yields: at most
\* max(n, 0) of them, none when n <= 0.
C30_LimitPulls ==
    comb = "Limit" =>
        /\ Len(seqPulls) <= Max(limitN0, 0)
        /\ Len(seqPulls) = Len(seqOut)

====
